---- MODULE Spec2Model ----
(***************************************************************************)
(* Model of sistema_facturacion.py: validated products, offers, a catalog  *)
(* of products and offers, and invoices computing their totals from the    *)
(* catalog.                                                                *)
(*                                                                         *)
(* Objects live in heaps (sequences); an object's identity is its index.   *)
(* Python strings are sequences of one-character strings.  Money is kept   *)
(* in hundredths (Escala), so the price 12.50 is 1250.                     *)
(***************************************************************************)
EXTENDS Integers, Sequences, FiniteSets, TLC

VARIABLES
    prods,          \* heap of Producto objects
    listas,         \* heap of Python list objects (codigos / tipos of offers)
    ofertas,        \* heap of Oferta objects
    cats,           \* heap of Catalogo objects
    facturas,       \* heap of Factura objects, in creation order
    ultimo_numero,  \* Factura._ultimo_numero (class attribute)
    eventos,        \* history: the calls made on the invoice counter
    llamadas,       \* history: the calls made to Factura.agregar
    ret             \* the last call: its name, arguments, result and exception

vars == <<prods, listas, ofertas, cats, facturas, ultimo_numero, eventos, llamadas, ret>>

\* ------------------------------------------------------------------ bounds

MaxProductos == 1
MaxOfertas == 2
MaxElementos == 2
MaxRegistradas == 2
MaxEventos == 4
MaxLlamadas == 3
MaxObjetos == 4
MaxEnCatalogo == 2

\* ----------------------------------------------------------------- strings

Escala == 10 * 10

Rep(c, n) == [i \in 1..n |-> c]

Digitos == {"0", "1", "2", "3", "4", "5", "6", "7", "8", "9"}

\* str.isdigit(): every character a digit, and at least one character
isdigit(s) == Len(s) > 0 /\ \A i \in 1..Len(s) : s[i] \in Digitos

Ninguno == [op |-> "", exc |-> "None", obj |-> 0, arg |-> 0, val |-> 0]

\* ---------------------------------------------------------------- Producto

codigo_valido(value) == Len(value) = 4 /\ isdigit(value)

nombre_valido(value) == 1 <= Len(value) /\ Len(value) <= 100

precio_valido_sinTope(value) == 10 * Escala <= value

precio_valido(value) == 10 * Escala <= value /\ value <= 10000 * Escala

tipo_valido(value) == 0 <= Len(value) /\ Len(value) <= 20

cantidad_valida(value) == 0 <= value /\ value <= 1000

\* Producto(codigo, nombre, precio, tipo, cantidad): the five setters run in
\* order; the first one that rejects raises and no object results.
Producto_init(codigo, nombre, precio, tipo, cantidad) ==
    IF /\ codigo_valido(codigo)
       /\ nombre_valido(nombre)
       /\ precio_valido(precio)
       /\ tipo_valido(tipo)
       /\ cantidad_valida(cantidad)
    THEN [exc |-> "None",
          obj |-> [codigo |-> codigo, nombre |-> nombre, precio |-> precio,
                   tipo |-> tipo, cantidad |-> cantidad]]
    ELSE [exc |-> "ValueError", obj |-> <<>>]

Producto_valorTotal(p) == p.precio * p.cantidad

\* Values handed to the constructor and the setters: in and out of bounds.
Gaseosa == <<"g", "a", "s", "e", "o", "s", "a">>
Galleta == <<"g", "a", "l", "l", "e", "t", "a">>

CodigosProbados == {<<"0", "0", "0", "1">>, <<"0", "0", "0", "2">>,
                    <<"0", "0", "1">>, <<"0", "0", "a", "1">>}
NombresProbados == {<<>>, Rep("n", 1), Rep("n", 100), Rep("n", 101)}
PreciosProbados == {10 * Escala - 1, 10 * Escala, 10000 * Escala, 10000 * Escala + 1}
TiposProbados == {<<>>, Rep("t", 20), Rep("t", 21)}
CantidadesProbadas == {-1, 0, 1000, 1001}

\* p = Producto(...)
NuevoProducto(codigo, nombre, precio, tipo, cantidad) ==
    LET r == Producto_init(codigo, nombre, precio, tipo, cantidad) IN
    /\ Len(prods) < MaxProductos
    /\ prods' = IF r.exc = "None" THEN Append(prods, r.obj) ELSE prods
    /\ ret' = [Ninguno EXCEPT !.op = "Producto", !.exc = r.exc,
                              !.obj = IF r.exc = "None" THEN Len(prods) + 1 ELSE 0]
    /\ UNCHANGED <<listas, ofertas, cats, facturas, ultimo_numero, eventos, llamadas>>

\* p.codigo = value
set_codigo(p, value) ==
    /\ p \in DOMAIN prods
    /\ prods' = IF codigo_valido(value) THEN [prods EXCEPT ![p].codigo = value] ELSE prods
    /\ ret' = [Ninguno EXCEPT !.op = "codigo", !.obj = p, !.arg = value,
                 !.exc = IF codigo_valido(value) THEN "None" ELSE "ValueError"]
    /\ UNCHANGED <<listas, ofertas, cats, facturas, ultimo_numero, eventos, llamadas>>

\* p.nombre = value
set_nombre(p, value) ==
    /\ p \in DOMAIN prods
    /\ prods' = IF nombre_valido(value) THEN [prods EXCEPT ![p].nombre = value] ELSE prods
    /\ ret' = [Ninguno EXCEPT !.op = "nombre", !.obj = p, !.arg = value,
                 !.exc = IF nombre_valido(value) THEN "None" ELSE "ValueError"]
    /\ UNCHANGED <<listas, ofertas, cats, facturas, ultimo_numero, eventos, llamadas>>

\* p.precio = value
set_precio(p, value) ==
    /\ p \in DOMAIN prods
    /\ prods' = IF precio_valido(value) THEN [prods EXCEPT ![p].precio = value] ELSE prods
    /\ ret' = [Ninguno EXCEPT !.op = "precio", !.obj = p, !.arg = value,
                 !.exc = IF precio_valido(value) THEN "None" ELSE "ValueError"]
    /\ UNCHANGED <<listas, ofertas, cats, facturas, ultimo_numero, eventos, llamadas>>

\* p.tipo = value
set_tipo(p, value) ==
    /\ p \in DOMAIN prods
    /\ prods' = IF tipo_valido(value) THEN [prods EXCEPT ![p].tipo = value] ELSE prods
    /\ ret' = [Ninguno EXCEPT !.op = "tipo", !.obj = p, !.arg = value,
                 !.exc = IF tipo_valido(value) THEN "None" ELSE "ValueError"]
    /\ UNCHANGED <<listas, ofertas, cats, facturas, ultimo_numero, eventos, llamadas>>

\* p.cantidad = value
set_cantidad(p, value) ==
    /\ p \in DOMAIN prods
    /\ prods' = IF cantidad_valida(value) THEN [prods EXCEPT ![p].cantidad = value] ELSE prods
    /\ ret' = [Ninguno EXCEPT !.op = "cantidad", !.obj = p, !.arg = value,
                 !.exc = IF cantidad_valida(value) THEN "None" ELSE "ValueError"]
    /\ UNCHANGED <<listas, ofertas, cats, facturas, ultimo_numero, eventos, llamadas>>

\* The two list objects built when `def __init__(self, descripcion,
\* codigos=[], tipos=[])` is evaluated: list 1 and list 2 of the heap.
ListasPorDefecto == << <<>>, <<>> >>

CatalogoVacio == [productos |-> <<>>, ofertas |-> <<>>]

InitProducto ==
    /\ prods = <<>>
    /\ listas = ListasPorDefecto
    /\ ofertas = <<>>
    /\ cats = <<CatalogoVacio>>
    /\ facturas = <<>>
    /\ ultimo_numero = 0
    /\ eventos = <<>>
    /\ llamadas = <<>>
    /\ ret = Ninguno

NextProducto ==
    \/ \E c \in CodigosProbados, n \in NombresProbados, pr \in PreciosProbados,
          t \in TiposProbados, q \in CantidadesProbadas : NuevoProducto(c, n, pr, t, q)
    \/ \E p \in DOMAIN prods, v \in CodigosProbados : set_codigo(p, v)
    \/ \E p \in DOMAIN prods, v \in NombresProbados : set_nombre(p, v)
    \/ \E p \in DOMAIN prods, v \in PreciosProbados : set_precio(p, v)
    \/ \E p \in DOMAIN prods, v \in TiposProbados : set_tipo(p, v)
    \/ \E p \in DOMAIN prods, v \in CantidadesProbadas : set_cantidad(p, v)

SpecProducto == InitProducto /\ [][NextProducto]_vars

\* Every field of the product inside the bounds the specification states.
EnRango(p) ==
    /\ Len(p.codigo) = 4 /\ \A i \in 1..4 : p.codigo[i] \in Digitos
    /\ Len(p.nombre) \in 1..100
    /\ p.precio \in (10 * Escala)..(10000 * Escala)
    /\ Len(p.tipo) \in 0..20
    /\ p.cantidad \in 0..1000

FueraDeRango(campo, v) ==
    CASE campo = "codigo" -> ~(Len(v) = 4 /\ \A i \in 1..Len(v) : v[i] \in Digitos)
      [] campo = "nombre" -> Len(v) \notin 1..100
      [] campo = "precio" -> v \notin (10 * Escala)..(10000 * Escala)
      [] campo = "tipo" -> Len(v) \notin 0..20
      [] campo = "cantidad" -> v \notin 0..1000
      [] OTHER -> FALSE

Campos == {"codigo", "nombre", "precio", "tipo", "cantidad"}

\* C5: after any assignment to a field of a constructed product every product
\* is inside its bounds; an assignment of an out-of-bounds value raises
\* ValueError and leaves every field of every product as it was, and an
\* in-bounds value is stored in the field assigned.
C5_AsignacionValidada ==
    [][ /\ \A p \in DOMAIN prods' : EnRango(prods'[p])
        /\ ret'.op \in Campos =>
             IF FueraDeRango(ret'.op, ret'.arg)
             THEN ret'.exc = "ValueError" /\ prods' = prods
             ELSE /\ ret'.exc = "None"
                  /\ prods' = [prods EXCEPT ![ret'.obj] =
                        [f \in DOMAIN prods[ret'.obj] |->
                            IF f = ret'.op THEN ret'.arg ELSE prods[ret'.obj][f]]]
      ]_vars

\* C5 witness: an out-of-bounds price was assigned to a constructed product and rejected.
C5_Witness ==
    /\ ret.op = "precio" /\ ret.exc = "ValueError" /\ ret.arg = 10000 * Escala + 1
    /\ ret.obj \in DOMAIN prods /\ prods[ret.obj].precio = 10 * Escala

\* ------------------------------------------------------------------ Oferta

Elementos(lista) == {lista[i] : i \in DOMAIN lista}

\* Oferta.__init__: the offer keeps the list objects it is handed (their
\* identities, not copies of them).
Oferta_init(clase, descuento, descripcion, codigos, tipos) ==
    [clase |-> clase, descuento |-> descuento, descripcion |-> descripcion,
     codigos |-> codigos, tipos |-> tipos]

\* Oferta.esAplicable, reading the list objects of heap L
Oferta_esAplicable(L, o, producto, cantidad) ==
    \/ producto.codigo \in Elementos(L[o.codigos])
    \/ producto.tipo \in Elementos(L[o.tipos])

OfertaDescuento_aplicar_sinComprobar(L, o, producto, cantidad) ==
    (producto.precio * cantidad * o.descuento) \div 100

\* precio * cantidad * (descuento / 100); exact for the prices and percentages
\* used here (every product precio * descuento is a multiple of 100)
OfertaDescuento_aplicar(L, o, producto, cantidad) ==
    IF Oferta_esAplicable(L, o, producto, cantidad)
    THEN (producto.precio * cantidad * o.descuento) \div 100
    ELSE 0

Oferta2x1_aplicar_redondeaArriba(L, o, producto, cantidad) ==
    IF Oferta_esAplicable(L, o, producto, cantidad)
    THEN producto.precio * ((cantidad + 1) \div 2)
    ELSE 0

Oferta2x1_aplicar(L, o, producto, cantidad) ==
    IF Oferta_esAplicable(L, o, producto, cantidad)
    THEN producto.precio * (cantidad \div 2)
    ELSE 0

\* the method the object's class resolves aplicar to
Oferta_aplicar(L, o, producto, cantidad) ==
    IF o.clase = "OfertaDescuento"
    THEN OfertaDescuento_aplicar(L, o, producto, cantidad)
    ELSE Oferta2x1_aplicar(L, o, producto, cantidad)

Clases == {"OfertaDescuento", "Oferta2x1"}

Cod0001 == <<"0", "0", "0", "1">>
Cod0002 == <<"0", "0", "0", "2">>

\* The products the offers are tried on.
ProductosDePrueba ==
    << Producto_init(Cod0001, Rep("n", 9), 10 * Escala, Gaseosa, 100).obj,
       Producto_init(Cod0002, Rep("n", 7), 10 * Escala + 250, Galleta, 50).obj >>

CantidadesPedidas == {1, 2, 5}

TotalElementos[i \in Nat] ==
    IF i = 0 THEN 0 ELSE Len(listas[i]) + TotalElementos[i - 1]

\* o = Clase(descuento, descripcion[, codigos=[...]][, tipos=[...]]): an
\* argument left out is the default's list object (list 1 for codigos, list 2
\* for tipos); an argument given is a list the call has just built.
NuevaOferta(clase, codigosDado, tiposDado) ==
    LET nc == IF codigosDado THEN Len(listas) + 1 ELSE 1
        nt == IF ~tiposDado THEN 2 ELSE IF codigosDado THEN Len(listas) + 2 ELSE Len(listas) + 1
        dadas == (IF codigosDado THEN << <<Cod0001>> >> ELSE <<>>)
                 \o (IF tiposDado THEN << <<Galleta>> >> ELSE <<>>)
    IN
    /\ Len(ofertas) < MaxOfertas
    /\ listas' = listas \o dadas
    /\ ofertas' = Append(ofertas,
          Oferta_init(clase, IF clase = "OfertaDescuento" THEN 20 ELSE 0, clase, nc, nt))
    /\ ret' = [Ninguno EXCEPT !.op = "Oferta", !.obj = Len(ofertas) + 1,
                              !.arg = <<codigosDado, tiposDado>>]
    /\ UNCHANGED <<prods, cats, facturas, ultimo_numero, eventos, llamadas>>

\* o.codigos.append(codigo)
codigos_append(o, codigo) ==
    /\ o \in DOMAIN ofertas
    /\ TotalElementos[Len(listas)] < MaxElementos
    /\ listas' = [listas EXCEPT ![ofertas[o].codigos] = Append(@, codigo)]
    /\ ret' = [Ninguno EXCEPT !.op = "codigos.append", !.obj = o, !.arg = codigo]
    /\ UNCHANGED <<prods, ofertas, cats, facturas, ultimo_numero, eventos, llamadas>>

\* o.tipos.append(tipo)
tipos_append(o, tipo) ==
    /\ o \in DOMAIN ofertas
    /\ TotalElementos[Len(listas)] < MaxElementos
    /\ listas' = [listas EXCEPT ![ofertas[o].tipos] = Append(@, tipo)]
    /\ ret' = [Ninguno EXCEPT !.op = "tipos.append", !.obj = o, !.arg = tipo]
    /\ UNCHANGED <<prods, ofertas, cats, facturas, ultimo_numero, eventos, llamadas>>

\* o.aplicar(p, cantidad)
aplicar(o, p, cantidad) ==
    /\ o \in DOMAIN ofertas /\ p \in DOMAIN prods
    /\ ret' = [Ninguno EXCEPT !.op = "aplicar", !.obj = o, !.arg = <<p, cantidad>>,
                              !.val = Oferta_aplicar(listas, ofertas[o], prods[p], cantidad)]
    /\ UNCHANGED <<prods, listas, ofertas, cats, facturas, ultimo_numero, eventos, llamadas>>

InitOferta ==
    /\ prods = ProductosDePrueba
    /\ listas = ListasPorDefecto
    /\ ofertas = <<>>
    /\ cats = <<CatalogoVacio>>
    /\ facturas = <<>>
    /\ ultimo_numero = 0
    /\ eventos = <<>>
    /\ llamadas = <<>>
    /\ ret = Ninguno

NextOferta ==
    \/ \E clase \in Clases, cd \in BOOLEAN, td \in BOOLEAN : NuevaOferta(clase, cd, td)
    \/ \E o \in DOMAIN ofertas, c \in {Cod0001, Cod0002} : codigos_append(o, c)
    \/ \E o \in DOMAIN ofertas, t \in {Gaseosa, Galleta} : tipos_append(o, t)
    \/ \E o \in DOMAIN ofertas, p \in DOMAIN prods, q \in CantidadesPedidas : aplicar(o, p, q)

SpecOferta == InitOferta /\ [][NextOferta]_vars

\* The offer covers the product: its code is among the offer's codes or its
\* category among the offer's categories.
Cubre(o, p) ==
    \/ \E i \in DOMAIN listas[o.codigos] : listas[o.codigos][i] = p.codigo
    \/ \E i \in DOMAIN listas[o.tipos] : listas[o.tipos][i] = p.tipo

Pares(q) == CHOOSE k \in 0..q : 2 * k <= q /\ q < 2 * k + 2

\* C6: adding a code or a category to a container an offer got by default
\* never changes whether any other offer is applicable to any product.
C6_ContenedoresPropios ==
    [][ \A o \in DOMAIN ofertas, otra \in DOMAIN ofertas, p \in DOMAIN prods :
          ( /\ otra # o
            /\ ret'.obj = o
            /\ \/ ret'.op = "codigos.append" /\ ofertas[o].codigos = 1
               \/ ret'.op = "tipos.append" /\ ofertas[o].tipos = 2 )
          => ( Oferta_esAplicable(listas', ofertas[otra], prods[p], 1)
               <=> Oferta_esAplicable(listas, ofertas[otra], prods[p], 1) )
      ]_vars

\* C7: aplicar called on its own returns 0 when the offer does not cover the
\* product; when it does, a percentage offer returns descuento percent of
\* precio * cantidad, and a 2x1 offer returns the price of one unit for every
\* complete pair, so that an odd unit left over is paid in full.
C7_AplicarAutonomo ==
    ret.op = "aplicar" =>
        LET o == ofertas[ret.obj]
            p == prods[ret.arg[1]]
            q == ret.arg[2]
        IN IF ~Cubre(o, p) THEN ret.val = 0
           ELSE IF o.clase = "OfertaDescuento"
                THEN 100 * ret.val = p.precio * q * o.descuento
                ELSE /\ ret.val = p.precio * Pares(q)
                     /\ p.precio * q - ret.val = p.precio * (Pares(q) + (q - 2 * Pares(q)))

\* C7 witness: a percentage offer applied on its own to a product it covers.
C7_Witness ==
    /\ ret.op = "aplicar"
    /\ ofertas[ret.obj].clase = "OfertaDescuento"
    /\ Cubre(ofertas[ret.obj], prods[ret.arg[1]])
    /\ ret.arg[2] = 5 /\ ret.val > 0

\* C8 as stated: a 2x1 offer covering a product of price 10 gives 40 for
\* 5 units and 0 for 1 unit.
C8_Original ==
    ( /\ ret.op = "aplicar"
      /\ ofertas[ret.obj].clase = "Oferta2x1"
      /\ Cubre(ofertas[ret.obj], prods[ret.arg[1]])
      /\ prods[ret.arg[1]].precio = 10 * Escala )
    => /\ ret.arg[2] = 5 => ret.val = 40 * Escala
       /\ ret.arg[2] = 1 => ret.val = 0

\* C8 amended: a 2x1 offer covering a product of price 10 gives 20 for
\* 5 units (two complete pairs) and 0 for 1 unit.
C8_DosPorUno ==
    ( /\ ret.op = "aplicar"
      /\ ofertas[ret.obj].clase = "Oferta2x1"
      /\ Cubre(ofertas[ret.obj], prods[ret.arg[1]])
      /\ prods[ret.arg[1]].precio = 10 * Escala )
    => /\ ret.arg[2] = 5 => ret.val = 20 * Escala
       /\ ret.arg[2] = 1 => ret.val = 0

\* C8 witness: a 2x1 offer applied to 5 units of a product of price 10 it covers.
C8_Witness ==
    /\ ret.op = "aplicar"
    /\ ofertas[ret.obj].clase = "Oferta2x1"
    /\ Cubre(ofertas[ret.obj], prods[ret.arg[1]])
    /\ prods[ret.arg[1]].precio = 10 * Escala
    /\ ret.arg[2] = 5

\* ---------------------------------------------------------------- Catalogo

RECURSIVE Catalogo_buscarOferta_ultima(_, _, _, _, _)
Catalogo_buscarOferta_ultima(L, O, registradas, producto, cantidad) ==
    IF registradas = <<>> THEN 0
    ELSE IF Oferta_esAplicable(L, O[registradas[Len(registradas)]], producto, cantidad)
         THEN registradas[Len(registradas)]
         ELSE Catalogo_buscarOferta_ultima(L, O, SubSeq(registradas, 1, Len(registradas) - 1),
                                           producto, cantidad)

\* Catalogo.buscarOferta over the catalog's list self.ofertas: the offer
\* object found, or 0 for None.
RECURSIVE Catalogo_buscarOferta(_, _, _, _, _)
Catalogo_buscarOferta(L, O, registradas, producto, cantidad) ==
    IF registradas = <<>> THEN 0
    ELSE IF Oferta_esAplicable(L, O[Head(registradas)], producto, cantidad)
         THEN Head(registradas)
         ELSE Catalogo_buscarOferta(L, O, Tail(registradas), producto, cantidad)

\* Catalogo.calcularDescuento
Catalogo_calcularDescuento(L, O, registradas, producto, cantidad) ==
    LET oferta == Catalogo_buscarOferta(L, O, registradas, producto, cantidad) IN
    IF oferta # 0 THEN Oferta_aplicar(L, O[oferta], producto, cantidad) ELSE 0

\* c.registrarOferta(o)
registrarOferta(c, o) ==
    /\ c \in DOMAIN cats /\ o \in DOMAIN ofertas
    /\ Len(cats[c].ofertas) < MaxRegistradas
    /\ cats' = [cats EXCEPT ![c].ofertas = Append(@, o)]
    /\ ret' = [Ninguno EXCEPT !.op = "registrarOferta", !.obj = c, !.arg = o]
    /\ UNCHANGED <<prods, listas, ofertas, facturas, ultimo_numero, eventos, llamadas>>

\* c.buscarOferta(p, cantidad)
buscarOferta(c, p, cantidad) ==
    /\ c \in DOMAIN cats /\ p \in DOMAIN prods
    /\ ret' = [Ninguno EXCEPT !.op = "buscarOferta", !.obj = c, !.arg = <<p, cantidad>>,
                 !.val = Catalogo_buscarOferta(listas, ofertas, cats[c].ofertas, prods[p], cantidad)]
    /\ UNCHANGED <<prods, listas, ofertas, cats, facturas, ultimo_numero, eventos, llamadas>>

\* c.calcularDescuento(p, cantidad)
calcularDescuento(c, p, cantidad) ==
    /\ c \in DOMAIN cats /\ p \in DOMAIN prods
    /\ ret' = [Ninguno EXCEPT !.op = "calcularDescuento", !.obj = c, !.arg = <<p, cantidad>>,
                 !.val = Catalogo_calcularDescuento(listas, ofertas, cats[c].ofertas, prods[p], cantidad)]
    /\ UNCHANGED <<prods, listas, ofertas, cats, facturas, ultimo_numero, eventos, llamadas>>

\* The offers on hand: a 20% offer on the category gaseosa, a 2x1 on code
\* 0001, a 2x1 on the category galleta, and a 20% offer with neither codes nor
\* categories given.
ListasDeOfertas == ListasPorDefecto \o << <<Gaseosa>>, <<Cod0001>>, <<Galleta>> >>

OfertasDisponibles ==
    << Oferta_init("OfertaDescuento", 20, "20% gaseosas", 1, 3),
       Oferta_init("Oferta2x1", 0, "2x1 en 0001", 4, 2),
       Oferta_init("Oferta2x1", 0, "2x1 galletas", 1, 5),
       Oferta_init("OfertaDescuento", 20, "20%", 1, 2) >>

InitResolucion ==
    /\ prods = ProductosDePrueba
    /\ listas = ListasDeOfertas
    /\ ofertas = OfertasDisponibles
    /\ cats = <<CatalogoVacio>>
    /\ facturas = <<>>
    /\ ultimo_numero = 0
    /\ eventos = <<>>
    /\ llamadas = <<>>
    /\ ret = Ninguno

NextResolucion ==
    \/ \E c \in DOMAIN cats, o \in DOMAIN ofertas : registrarOferta(c, o)
    \/ \E c \in DOMAIN cats, p \in DOMAIN prods, q \in CantidadesPedidas : buscarOferta(c, p, q)
    \/ \E c \in DOMAIN cats, p \in DOMAIN prods, q \in CantidadesPedidas : calcularDescuento(c, p, q)

SpecResolucion == InitResolucion /\ [][NextResolucion]_vars

\* The positions of the catalog's offer list whose offer covers the product.
Aplicables(c, p) == {i \in DOMAIN cats[c].ofertas : Cubre(ofertas[cats[c].ofertas[i]], p)}

Primera(c, p) == CHOOSE i \in Aplicables(c, p) : \A j \in Aplicables(c, p) : i <= j

\* C1: buscarOferta returns the earliest registered offer that covers the
\* product (None when no offer does) and calcularDescuento returns what that
\* one offer's aplicar gives (0 when no offer does), whatever the offers
\* registered after it would give.
C1_PrimeraOfertaAplicable ==
    /\ ret.op = "buscarOferta" =>
          IF Aplicables(ret.obj, prods[ret.arg[1]]) = {} THEN ret.val = 0
          ELSE ret.val = cats[ret.obj].ofertas[Primera(ret.obj, prods[ret.arg[1]])]
    /\ ret.op = "calcularDescuento" =>
          IF Aplicables(ret.obj, prods[ret.arg[1]]) = {} THEN ret.val = 0
          ELSE ret.val = Oferta_aplicar(listas,
                            ofertas[cats[ret.obj].ofertas[Primera(ret.obj, prods[ret.arg[1]])]],
                            prods[ret.arg[1]], ret.arg[2])

\* C1 witness: calcularDescuento returned 0 from the first applicable offer
\* while a later registered offer, also applicable, would give more.
C1_Witness ==
    /\ ret.op = "calcularDescuento" /\ ret.val = 0
    /\ \E i \in Aplicables(ret.obj, prods[ret.arg[1]]) :
          /\ i > Primera(ret.obj, prods[ret.arg[1]])
          /\ Oferta_aplicar(listas, ofertas[cats[ret.obj].ofertas[i]],
                            prods[ret.arg[1]], ret.arg[2]) > 0

\* ----------------------------------------------------------------- Cliente

\* Cliente.cuit setter: value.replace('-', '') drops every hyphen
cuit_valido(value) ==
    /\ Len(value) = 13
    /\ value[3] = "-"
    /\ value[12] = "-"
    /\ isdigit(SelectSeq(value, LAMBDA ch : ch # "-"))

Cliente_init(nombre, cuit) ==
    IF nombre_valido(nombre) /\ cuit_valido(cuit)
    THEN [exc |-> "None", obj |-> [nombre |-> nombre, cuit |-> cuit]]
    ELSE [exc |-> "ValueError", obj |-> <<>>]

\* The clients invoices are made out to.
Clientes ==
    << Cliente_init(Rep("n", 10),
          <<"2", "0", "-", "1", "2", "3", "4", "5", "6", "7", "8", "-", "9">>).obj,
       Cliente_init(Rep("n", 8),
          <<"2", "7", "-", "8", "7", "6", "5", "4", "3", "2", "1", "-", "0">>).obj >>

\* ----------------------------------------------------------------- Factura

Factura_init_sinIncremento(catalogo, cliente, ultimo) ==
    [catalogo |-> catalogo, cliente |-> cliente, items |-> <<>>, numero |-> ultimo]

\* Factura.__init__, given the value of Factura._ultimo_numero before the
\* call: the counter is incremented and the invoice takes the new value.
\* (self.fecha, the wall clock's reading, is not kept.)
Factura_init(catalogo, cliente, ultimo) ==
    [catalogo |-> catalogo, cliente |-> cliente, items |-> <<>>, numero |-> ultimo + 1]

\* f = Factura(c, cl)
NuevaFactura(c, cl) ==
    /\ c \in DOMAIN cats /\ cl \in DOMAIN Clientes
    /\ Len(eventos) < MaxEventos
    /\ facturas' = Append(facturas, Factura_init(c, cl, ultimo_numero))
    /\ ultimo_numero' = ultimo_numero + 1
    /\ eventos' = Append(eventos, [op |-> "Factura", val |-> Len(facturas) + 1])
    /\ ret' = [Ninguno EXCEPT !.op = "Factura", !.obj = Len(facturas) + 1, !.arg = <<c, cl>>]
    /\ UNCHANGED <<prods, listas, ofertas, cats, llamadas>>

\* Factura.ultimaFactura(numero)
ultimaFactura(numero) ==
    /\ Len(eventos) < MaxEventos
    /\ ultimo_numero' = numero
    /\ eventos' = Append(eventos, [op |-> "ultimaFactura", val |-> numero])
    /\ ret' = [Ninguno EXCEPT !.op = "ultimaFactura", !.arg = numero]
    /\ UNCHANGED <<prods, listas, ofertas, cats, facturas, llamadas>>

\* Factura.nuevoNumero()
nuevoNumero ==
    /\ Len(eventos) < MaxEventos
    /\ ultimo_numero' = ultimo_numero + 1
    /\ eventos' = Append(eventos, [op |-> "nuevoNumero", val |-> ultimo_numero + 1])
    /\ ret' = [Ninguno EXCEPT !.op = "nuevoNumero", !.val = ultimo_numero + 1]
    /\ UNCHANGED <<prods, listas, ofertas, cats, facturas, llamadas>>

NumerosRetomados == {0, 5}

InitNumeracion ==
    /\ prods = ProductosDePrueba
    /\ listas = ListasDeOfertas
    /\ ofertas = OfertasDisponibles
    /\ cats = <<CatalogoVacio, CatalogoVacio>>
    /\ facturas = <<>>
    /\ ultimo_numero = 0
    /\ eventos = <<>>
    /\ llamadas = <<>>
    /\ ret = Ninguno

NextNumeracion ==
    \/ \E c \in DOMAIN cats, cl \in DOMAIN Clientes : NuevaFactura(c, cl)
    \/ \E n \in NumerosRetomados : ultimaFactura(n)
    \/ nuevoNumero

SpecNumeracion == InitNumeracion /\ [][NextNumeracion]_vars

\* No call named in ops lies strictly between events i and j.
SinIntermedio(i, j, ops) == \A k \in (i + 1)..(j - 1) : eventos[k].op \notin ops

NumeroDe(i) == facturas[eventos[i].val].numero

\* C3 as stated: with no ultimaFactura call in between, an invoice's number
\* is one more than the number of the invoice created before it, and the
\* first invoice created after ultimaFactura(V) gets V + 1.
C3_Original ==
    \A i \in DOMAIN eventos, j \in DOMAIN eventos :
        (i < j /\ eventos[j].op = "Factura" /\ SinIntermedio(i, j, {"Factura", "ultimaFactura"}))
        => /\ eventos[i].op = "Factura" => NumeroDe(j) = NumeroDe(i) + 1
           /\ eventos[i].op = "ultimaFactura" => NumeroDe(j) = eventos[i].val + 1

\* C3 amended: with neither an ultimaFactura nor a nuevoNumero call in
\* between, an invoice's number is one more than the number of the invoice
\* created before it, and the first invoice created after ultimaFactura(V)
\* gets V + 1, whatever catalog and client the invoices are bound to.
C3_NumeracionContigua ==
    \A i \in DOMAIN eventos, j \in DOMAIN eventos :
        ( /\ i < j /\ eventos[j].op = "Factura"
          /\ SinIntermedio(i, j, {"Factura", "ultimaFactura", "nuevoNumero"}) )
        => /\ eventos[i].op = "Factura" => NumeroDe(j) = NumeroDe(i) + 1
           /\ eventos[i].op = "ultimaFactura" => NumeroDe(j) = eventos[i].val + 1

\* C3 witness: ultimaFactura(5), then two invoices for different catalogs and
\* clients, numbered 6 and 7.
C3_Witness ==
    /\ Len(eventos) >= 3
    /\ eventos[1] = [op |-> "ultimaFactura", val |-> 5]
    /\ eventos[2].op = "Factura" /\ eventos[3].op = "Factura"
    /\ facturas[1].numero = 6 /\ facturas[2].numero = 7
    /\ facturas[1].catalogo # facturas[2].catalogo
    /\ facturas[1].cliente # facturas[2].cliente

\* --------------------------------------------------- Factura: lines, totals

Factura_agregar_sinFusion(items, producto, cantidad) ==
    Append(items, [producto |-> producto, cantidad |-> cantidad])

\* Factura.agregar on the list self.items: the first line whose product is
\* the object given (Producto defines no __eq__, so == is identity) takes the
\* quantity; with no such line a new one is appended.
Factura_agregar(items, producto, cantidad) ==
    IF \E i \in DOMAIN items : items[i].producto = producto
    THEN LET i == CHOOSE k \in DOMAIN items :
                     /\ items[k].producto = producto
                     /\ \A m \in 1..(k - 1) : items[m].producto # producto
         IN [items EXCEPT ![i].cantidad = @ + cantidad]
    ELSE Append(items, [producto |-> producto, cantidad |-> cantidad])

\* The catalog of the end-to-end example: product 0001 at 12.50 in the
\* category gaseosa with 100 units, and a second product.
ProductosDelCatalogo ==
    << Producto_init(Cod0001, Rep("n", 9), 10 * Escala + 250, Gaseosa, 100).obj,
       Producto_init(Cod0002, Rep("n", 7), 10 * Escala, Galleta, 50).obj >>

RECURSIVE SumaSubtotal(_)
SumaSubtotal(items) ==
    IF items = <<>> THEN 0
    ELSE prods[Head(items).producto].precio * Head(items).cantidad + SumaSubtotal(Tail(items))

RECURSIVE SumaAlCrear(_)
SumaAlCrear(items) ==
    IF items = <<>> THEN 0
    ELSE ProductosDelCatalogo[Head(items).producto].precio * Head(items).cantidad
         + SumaAlCrear(Tail(items))

Factura_subtotal_alCrear(f) == SumaAlCrear(facturas[f].items)

\* Factura.subtotal
Factura_subtotal(f) == SumaSubtotal(facturas[f].items)

RECURSIVE SumaDescuentos(_, _)
SumaDescuentos(c, items) ==
    IF items = <<>> THEN 0
    ELSE Catalogo_calcularDescuento(listas, ofertas, cats[c].ofertas,
                                    prods[Head(items).producto], Head(items).cantidad)
         + SumaDescuentos(c, Tail(items))

\* Factura.descuentos
Factura_descuentos(f) == SumaDescuentos(facturas[f].catalogo, facturas[f].items)

\* Factura.total
Factura_total(f) == Factura_subtotal(f) - Factura_descuentos(f)

\* f.agregar(p, cantidad)
agregar(f, p, cantidad) ==
    /\ f \in DOMAIN facturas /\ p \in DOMAIN prods
    /\ Len(llamadas) < MaxLlamadas
    /\ facturas' = [facturas EXCEPT ![f].items = Factura_agregar(@, p, cantidad)]
    /\ llamadas' = Append(llamadas, [factura |-> f, producto |-> p, cantidad |-> cantidad])
    /\ ret' = [Ninguno EXCEPT !.op = "agregar", !.obj = f, !.arg = <<p, cantidad>>]
    /\ UNCHANGED <<prods, listas, ofertas, cats, ultimo_numero, eventos>>

PreciosNuevos == {10 * Escala, 10 * Escala + 250}

CantidadesFacturadas == {2, 3}

OfertasRegistrables == {1, 2}

InitFactura ==
    /\ prods = ProductosDelCatalogo
    /\ listas = ListasDeOfertas
    /\ ofertas = OfertasDisponibles
    /\ cats = <<[productos |-> <<1, 2>>, ofertas |-> <<>>]>>
    /\ facturas = <<Factura_init(1, 1, 0)>>
    /\ ultimo_numero = 1
    /\ eventos = <<[op |-> "Factura", val |-> 1]>>
    /\ llamadas = <<>>
    /\ ret = Ninguno

NextFactura ==
    \/ \E f \in DOMAIN facturas, p \in DOMAIN prods, q \in CantidadesFacturadas : agregar(f, p, q)
    \/ \E p \in DOMAIN prods, v \in PreciosNuevos : set_precio(p, v)
    \/ \E c \in DOMAIN cats, o \in OfertasRegistrables : registrarOferta(c, o)

SpecFactura == InitFactura /\ [][NextFactura]_vars

\* The calls of agregar made on invoice f, as positions of the history.
LlamadasDe(f) == {i \in DOMAIN llamadas : llamadas[i].factura = f}

PrimeraLlamada(f, p) ==
    CHOOSE i \in LlamadasDe(f) :
        /\ llamadas[i].producto = p
        /\ \A j \in LlamadasDe(f) : llamadas[j].producto = p => i <= j

TotalPedido(f, p) ==
    LET S[n \in 0..Len(llamadas)] ==
            IF n = 0 THEN 0
            ELSE S[n - 1] + (IF llamadas[n].factura = f /\ llamadas[n].producto = p
                             THEN llamadas[n].cantidad ELSE 0)
    IN S[Len(llamadas)]

\* C2: an invoice holds exactly one line for each product agregar was called
\* with, the lines stand in the order the products were first added, and each
\* line's quantity is the sum of the quantities agregar was called with for
\* that product.
C2_UnaLineaPorProducto ==
    \A f \in DOMAIN facturas :
        LET items == facturas[f].items IN
        /\ \A i \in DOMAIN items, j \in DOMAIN items :
              i # j => items[i].producto # items[j].producto
        /\ {items[i].producto : i \in DOMAIN items}
              = {llamadas[k].producto : k \in LlamadasDe(f)}
        /\ \A i \in DOMAIN items, j \in DOMAIN items :
              i < j => PrimeraLlamada(f, items[i].producto) < PrimeraLlamada(f, items[j].producto)
        /\ \A i \in DOMAIN items : items[i].cantidad = TotalPedido(f, items[i].producto)

\* C2 witness: the same product added with 2 and then 3 stands on one line of
\* quantity 5, after the line of a product added before it.
C2_Witness ==
    /\ Len(llamadas) = 3
    /\ llamadas[1].producto = 2
    /\ llamadas[2].producto = 1 /\ llamadas[2].cantidad = 2
    /\ llamadas[3].producto = 1 /\ llamadas[3].cantidad = 3
    /\ Len(facturas[1].items) = 2
    /\ facturas[1].items[2] = [producto |-> 1, cantidad |-> 5]

\* What the catalog's offers take off a line now: the amount of the earliest
\* registered offer covering the product, 0 with no such offer.
DescuentoVigente(c, p, q) ==
    IF Aplicables(c, p) = {} THEN 0
    ELSE LET o == ofertas[cats[c].ofertas[Primera(c, p)]] IN
         IF o.clase = "OfertaDescuento" THEN (p.precio * q * o.descuento) \div 100
         ELSE p.precio * Pares(q)

\* The quantity invoice f holds of product p (0 with no line for it).
CantidadEnFactura(f, p) ==
    LET items == facturas[f].items
        S[n \in 0..Len(items)] ==
            IF n = 0 THEN 0
            ELSE S[n - 1] + (IF items[n].producto = p THEN items[n].cantidad ELSE 0)
    IN S[Len(items)]

TotalesVigentes ==
    \A f \in DOMAIN facturas :
        LET items == facturas[f].items
            c == facturas[f].catalogo
            Sub[n \in 0..Len(items)] ==
                IF n = 0 THEN 0
                ELSE Sub[n - 1] + prods[items[n].producto].precio * items[n].cantidad
            Des[n \in 0..Len(items)] ==
                IF n = 0 THEN 0
                ELSE Des[n - 1] + DescuentoVigente(c, prods[items[n].producto], items[n].cantidad)
        IN
        /\ Factura_subtotal(f) = Sub[Len(items)]
        /\ Factura_descuentos(f) = Des[Len(items)]
        /\ Factura_total(f) = Sub[Len(items)] - Des[Len(items)]
        /\ ( /\ Len(items) = 1 /\ items[1].cantidad = 4
             /\ prods[items[1].producto].precio = 10 * Escala + 250
             /\ prods[items[1].producto].tipo = Gaseosa
             /\ cats[c].ofertas # <<>>
             /\ ofertas[cats[c].ofertas[1]].clase = "OfertaDescuento"
             /\ ofertas[cats[c].ofertas[1]].descuento = 20
             /\ Gaseosa \in Elementos(listas[ofertas[cats[c].ofertas[1]].tipos]) )
           => /\ Factura_subtotal(f) = 50 * Escala
              /\ Factura_descuentos(f) = 10 * Escala
              /\ Factura_total(f) = 40 * Escala

\* C4: after every step an invoice's subtotal is the sum over its lines of the
\* product's current price times the quantity, its descuentos the sum over
\* its lines of what the catalog's offers take off now, and its total the
\* difference (4 units at the price 12.50 under a 20% offer on the category
\* give 50, 10 and 40), also right after an offer was registered; a price
\* assigned to a product moves the subtotal of an invoice already holding it
\* by the price difference times the quantity held.
C4_TotalesVigentes ==
    [][ /\ TotalesVigentes'
        /\ \A f \in DOMAIN facturas :
              (ret'.op = "precio" /\ ret'.exc = "None") =>
                  Factura_subtotal(f)' - Factura_subtotal(f)
                     = (ret'.arg - prods[ret'.obj].precio) * CantidadEnFactura(f, ret'.obj)
      ]_vars

\* C4 witness: the invoice of the example (one line of 4 units, total 40)
\* after a price was assigned to the product of its line, under an offer
\* registered in its catalog.
C4_Witness ==
    /\ ret.op = "precio" /\ ret.exc = "None" /\ ret.arg = 10 * Escala + 250
    /\ Len(facturas[1].items) = 1
    /\ facturas[1].items[1] = [producto |-> ret.obj, cantidad |-> 4]
    /\ Factura_subtotal(1) = 50 * Escala
    /\ Factura_descuentos(1) = 10 * Escala
    /\ Factura_total(1) = 40 * Escala

\* ------------------------------------------------- Catalogo: leer, informe

ValorDigito == [d \in Digitos |->
    CASE d = "0" -> 0 [] d = "1" -> 1 [] d = "2" -> 2 [] d = "3" -> 3 [] d = "4" -> 4
      [] d = "5" -> 5 [] d = "6" -> 6 [] d = "7" -> 7 [] d = "8" -> 8 [] d = "9" -> 9]

RECURSIVE Entero(_)
Entero(s) == IF s = <<>> THEN 0
             ELSE 10 * Entero(SubSeq(s, 1, Len(s) - 1)) + ValorDigito[s[Len(s)]]

SinSigno(s) == IF s # <<>> /\ s[1] \in {"-", "+"} THEN Tail(s) ELSE s

Signo(s) == IF s # <<>> /\ s[1] = "-" THEN -1 ELSE 1

\* int(s) of a field: an optional sign and one digit or more
int(s) ==
    IF isdigit(SinSigno(s))
    THEN [exc |-> "None", val |-> Signo(s) * Entero(SinSigno(s))]
    ELSE [exc |-> "ValueError", val |-> 0]

\* float(s) of a field, in hundredths: an optional sign, digits, at most one
\* point, one digit or more in all.  Fields with more than two digits after
\* the point have no value in hundredths and are not drawn.
float(s) ==
    LET t == SinSigno(s)
        puntos == {i \in DOMAIN t : t[i] = "."}
        k == IF puntos = {} THEN Len(t) + 1 ELSE CHOOSE i \in puntos : TRUE
        ent == SubSeq(t, 1, k - 1)
        dec == SubSeq(t, k + 1, Len(t))
    IN IF /\ Cardinality(puntos) <= 1
          /\ isdigit(ent \o dec)
       THEN [exc |-> "None",
             val |-> Signo(s) * (Entero(ent) * Escala
                       + CASE Len(dec) = 0 -> 0
                           [] Len(dec) = 1 -> 10 * Entero(dec)
                           [] Len(dec) = 2 -> Entero(dec))]
       ELSE [exc |-> "ValueError", val |-> 0]

\* One turn of the loop of Catalogo.leer: the row unpacked into five names,
\* the numbers parsed, the product built.
Producto_deFila(row) ==
    IF Len(row) # 5 THEN [exc |-> "ValueError", obj |-> <<>>]
    ELSE IF float(row[3]).exc # "None" THEN [exc |-> "ValueError", obj |-> <<>>]
    ELSE IF int(row[5]).exc # "None" THEN [exc |-> "ValueError", obj |-> <<>>]
    ELSE Producto_init(row[1], row[2], float(row[3]).val, row[4], int(row[5]).val)

\* The loop over the rows after the header: the products appended until a row
\* raises, and the exception raised (None when every row passes).
RECURSIVE LeerFilas(_, _)
LeerFilas(rows, hechos) ==
    IF rows = <<>> THEN [exc |-> "None", nuevos |-> hechos]
    ELSE LET r == Producto_deFila(Head(rows)) IN
         IF r.exc # "None" THEN [exc |-> r.exc, nuevos |-> hechos]
         ELSE LeerFilas(Tail(rows), Append(hechos, r.obj))

Catalogo_leer_sinVaciar(previos, archivo, base) ==
    IF ~archivo.existe
    THEN [exc |-> "FileNotFoundError", productos |-> previos, nuevos |-> <<>>]
    ELSE IF archivo.filas = <<>>
    THEN [exc |-> "StopIteration", productos |-> previos, nuevos |-> <<>>]
    ELSE LET r == LeerFilas(Tail(archivo.filas), <<>>) IN
         [exc |-> r.exc,
          productos |-> previos \o [i \in 1..Len(r.nuevos) |-> base + i],
          nuevos |-> r.nuevos]

\* Catalogo.leer on a catalog whose list held previos, with base objects on
\* the heap: the exception raised, the list self.productos afterwards and the
\* objects built.  self.productos is emptied before the file is opened.
Catalogo_leer(previos, archivo, base) ==
    IF ~archivo.existe
    THEN [exc |-> "FileNotFoundError", productos |-> <<>>, nuevos |-> <<>>]
    ELSE IF archivo.filas = <<>>
    THEN [exc |-> "StopIteration", productos |-> <<>>, nuevos |-> <<>>]
    ELSE LET r == LeerFilas(Tail(archivo.filas), <<>>) IN
         [exc |-> r.exc,
          productos |-> [i \in 1..Len(r.nuevos) |-> base + i],
          nuevos |-> r.nuevos]

\* c.leer(archivo)
leer(c, archivo) ==
    LET r == Catalogo_leer(cats[c].productos, archivo, Len(prods)) IN
    /\ c \in DOMAIN cats
    /\ Len(prods) + Len(archivo.filas) <= MaxObjetos + 1
    /\ prods' = prods \o r.nuevos
    /\ cats' = [cats EXCEPT ![c].productos = r.productos]
    /\ ret' = [Ninguno EXCEPT !.op = "leer", !.obj = c, !.arg = archivo, !.exc = r.exc]
    /\ UNCHANGED <<listas, ofertas, facturas, ultimo_numero, eventos, llamadas>>

\* c.agregar(p)
agregarProducto(c, p) ==
    /\ c \in DOMAIN cats /\ p \in DOMAIN prods
    /\ Len(cats[c].productos) < MaxEnCatalogo
    /\ cats' = [cats EXCEPT ![c].productos = Append(@, p)]
    /\ ret' = [Ninguno EXCEPT !.op = "agregarProducto", !.obj = c, !.arg = p]
    /\ UNCHANGED <<prods, listas, ofertas, facturas, ultimo_numero, eventos, llamadas>>

RECURSIVE Catalogo_cantidadUnidades(_)
Catalogo_cantidadUnidades(productos) ==
    IF productos = <<>> THEN 0
    ELSE prods[Head(productos)].cantidad + Catalogo_cantidadUnidades(Tail(productos))

RECURSIVE Catalogo_valorTotal(_)
Catalogo_valorTotal(productos) ==
    IF productos = <<>> THEN 0
    ELSE Producto_valorTotal(prods[Head(productos)]) + Catalogo_valorTotal(Tail(productos))

\* The dict tipos of Catalogo.informe, as the sequence of its entries in
\* insertion order.
RECURSIVE TiposDe(_, _)
TiposDe(productos, tipos) ==
    IF productos = <<>> THEN tipos
    ELSE LET p == prods[Head(productos)]
             con == IF \E i \in DOMAIN tipos : tipos[i].tipo = p.tipo THEN tipos
                    ELSE Append(tipos, [tipo |-> p.tipo, unidades |-> 0, valor |-> 0])
             i == CHOOSE k \in DOMAIN con : con[k].tipo = p.tipo
         IN TiposDe(Tail(productos),
                    [con EXCEPT ![i].unidades = @ + p.cantidad,
                                ![i].valor = @ + Producto_valorTotal(p)])

Catalogo_informe_soloTotal(c) ==
    LET tipos == TiposDe(cats[c].productos, <<>>) IN
    IF Catalogo_cantidadUnidades(cats[c].productos) = 0
    THEN [exc |-> "ZeroDivisionError", val |-> <<>>]
    ELSE [exc |-> "None",
          val |-> [productos |-> Len(cats[c].productos),
                   unidades |-> Catalogo_cantidadUnidades(cats[c].productos),
                   valor |-> Catalogo_valorTotal(cats[c].productos),
                   tipos |-> tipos,
                   ofertas |-> [i \in DOMAIN cats[c].ofertas |->
                                   ofertas[cats[c].ofertas[i]].descripcion]]]

\* Catalogo.informe: the exception raised and, with none, what the report is
\* made from (the counts, the value, the entries of tipos and the offers'
\* descriptions; the text's layout is not kept).  The two divisions are
\* valorTotal / cantidadUnidades and, for each entry, valor / unidades.
Catalogo_informe(c) ==
    LET tipos == TiposDe(cats[c].productos, <<>>) IN
    IF Catalogo_cantidadUnidades(cats[c].productos) = 0
    THEN [exc |-> "ZeroDivisionError", val |-> <<>>]
    ELSE IF \E i \in DOMAIN tipos : tipos[i].unidades = 0
    THEN [exc |-> "ZeroDivisionError", val |-> <<>>]
    ELSE [exc |-> "None",
          val |-> [productos |-> Len(cats[c].productos),
                   unidades |-> Catalogo_cantidadUnidades(cats[c].productos),
                   valor |-> Catalogo_valorTotal(cats[c].productos),
                   tipos |-> tipos,
                   ofertas |-> [i \in DOMAIN cats[c].ofertas |->
                                   ofertas[cats[c].ofertas[i]].descripcion]]]

\* c.informe()
informe(c) ==
    /\ c \in DOMAIN cats
    /\ ret' = [Ninguno EXCEPT !.op = "informe", !.obj = c,
                              !.exc = Catalogo_informe(c).exc, !.val = Catalogo_informe(c).val]
    /\ UNCHANGED <<prods, listas, ofertas, cats, facturas, ultimo_numero, eventos, llamadas>>

\* The files read: their rows as csv.reader yields them, each a list of fields.
Cabecera == << <<"c", "o", "d", "i", "g", "o">>, <<"n", "o", "m", "b", "r", "e">>,
               <<"p", "r", "e", "c", "i", "o">>, <<"t", "i", "p", "o">>,
               <<"c", "a", "n", "t", "i", "d", "a", "d">> >>

FilaGaseosa == <<Cod0001, Rep("n", 9), <<"1", "2", ".", "5", "0">>, Gaseosa, <<"1", "0", "0">>>>
FilaGalleta == <<Cod0002, Rep("n", 7), <<"1", "0">>, Galleta, <<"5", "0">>>>
FilaAgotada == <<<<"0", "0", "0", "3">>, Rep("n", 5), <<"1", "5", ".", "5">>, Galleta, <<"0">>>>

FilasBuenas == {FilaGaseosa, FilaGalleta, FilaAgotada}

FilasMalas ==
    { <<Cod0001, Rep("n", 9), <<"1", "2", ".", "5", "0">>, Gaseosa>>,
      <<>>,
      <<Cod0001, Rep("n", 9), <<"1", "2", ".", "5", "0">>, Gaseosa, <<"1", "0", "0">>, <<>>>>,
      <<Cod0001, Rep("n", 9), <<"1", "2", ".", "5", ".", "0">>, Gaseosa, <<"1", "0", "0">>>>,
      <<Cod0001, Rep("n", 9), <<"1", "2", "x">>, Gaseosa, <<"1", "0", "0">>>>,
      <<Cod0001, Rep("n", 9), <<"1", "2", ".", "5", "0">>, Gaseosa, <<"1", ".", "5">>>>,
      <<Cod0001, Rep("n", 9), <<"9", ".", "9", "9">>, Gaseosa, <<"1", "0", "0">>>>,
      <<Cod0001, Rep("n", 9), <<"1", "2", ".", "5", "0">>, Gaseosa, <<"-", "1">>>>,
      <<<<"0", "0", "1">>, Rep("n", 9), <<"1", "2", ".", "5", "0">>, Gaseosa, <<"1", "0", "0">>>> }

Filas == FilasBuenas \cup FilasMalas

Archivos ==
    {[existe |-> FALSE, filas |-> <<>>], [existe |-> TRUE, filas |-> <<>>],
     [existe |-> TRUE, filas |-> <<Cabecera>>]}
    \cup {[existe |-> TRUE, filas |-> <<Cabecera, a>>] : a \in Filas}
    \cup {[existe |-> TRUE, filas |-> <<Cabecera, a, b>>] : a \in FilasBuenas, b \in Filas}

InitCatalogo ==
    /\ prods = <<>>
    /\ listas = ListasDeOfertas
    /\ ofertas = OfertasDisponibles
    /\ cats = <<[productos |-> <<>>, ofertas |-> <<3, 1>>]>>
    /\ facturas = <<>>
    /\ ultimo_numero = 0
    /\ eventos = <<>>
    /\ llamadas = <<>>
    /\ ret = Ninguno

NextCatalogo ==
    \/ \E c \in DOMAIN cats, a \in Archivos : leer(c, a)
    \/ \E c \in DOMAIN cats, p \in DOMAIN prods : agregarProducto(c, p)
    \/ \E c \in DOMAIN cats : informe(c)

SpecCatalogo == InitCatalogo /\ [][NextCatalogo]_vars

\* The product each well-formed row stands for.
Esperado(fila) ==
    CASE fila = FilaGaseosa ->
            [codigo |-> Cod0001, nombre |-> Rep("n", 9), precio |-> 1250,
             tipo |-> Gaseosa, cantidad |-> 100]
      [] fila = FilaGalleta ->
            [codigo |-> Cod0002, nombre |-> Rep("n", 7), precio |-> 1000,
             tipo |-> Galleta, cantidad |-> 50]
      [] fila = FilaAgotada ->
            [codigo |-> <<"0", "0", "0", "3">>, nombre |-> Rep("n", 5), precio |-> 1550,
             tipo |-> Galleta, cantidad |-> 0]

\* The rows of the file after its header.
Datos(a) == IF a.existe /\ a.filas # <<>> THEN Tail(a.filas) ELSE <<>>

\* The file cannot be loaded: it is missing, has no header, or holds a row
\* that is not well formed.
NoCargable(a) ==
    \/ ~a.existe
    \/ a.filas = <<>>
    \/ \E i \in DOMAIN Datos(a) : Datos(a)[i] \notin FilasBuenas

\* The number of rows before the first one that is not well formed.
Precedentes(a) ==
    CHOOSE k \in 0..Len(Datos(a)) :
        /\ \A i \in 1..k : Datos(a)[i] \in FilasBuenas
        /\ k < Len(Datos(a)) => Datos(a)[k + 1] \notin FilasBuenas

\* C9: leer raises exactly on a file that cannot be loaded, and then the
\* catalog's product list holds the products of the rows before the failing
\* row, in the file's order, each a new object and none of them an object
\* the list held before the call (no product when the file is missing).
C9_CargaFallida ==
    [][ ret'.op = "leer" =>
          LET c == ret'.obj
              a == ret'.arg
              despues == cats'[c].productos
          IN /\ ret'.exc # "None" <=> NoCargable(a)
             /\ NoCargable(a) =>
                  /\ Len(despues) = Precedentes(a)
                  /\ \A i \in DOMAIN despues :
                        /\ despues[i] \notin Elementos(cats[c].productos)
                        /\ despues[i] \notin DOMAIN prods
                        /\ prods'[despues[i]] = Esperado(Datos(a)[i])
                  /\ \A i \in DOMAIN despues, j \in DOMAIN despues :
                        i # j => despues[i] # despues[j]
                  /\ ~a.existe => despues = <<>>
      ]_vars

\* C9 witness: a load that failed on its second row, after an earlier load had
\* built products; the list holds the one product of the first row.
C9_Witness ==
    /\ ret.op = "leer" /\ ret.exc = "ValueError"
    /\ Len(ret.arg.filas) = 3
    /\ Len(prods) >= 2
    /\ cats[ret.obj].productos = <<Len(prods)>>

\* The units the catalog's list holds, of every category or of category t.
UnidadesEn(c, categorias) ==
    LET lista == cats[c].productos
        S[n \in 0..Len(lista)] ==
            IF n = 0 THEN 0
            ELSE S[n - 1] + (IF prods[lista[n]].tipo \in categorias
                             THEN prods[lista[n]].cantidad ELSE 0)
    IN S[Len(lista)]

Categorias(c) == {prods[cats[c].productos[i]].tipo : i \in DOMAIN cats[c].productos}

\* C10: informe raises ZeroDivisionError exactly when the catalog holds no
\* unit at all or some category present in it holds no unit, returns a report
\* otherwise, and leaves the product list and the offer list as they were.
C10_InformeDivisionPorCero ==
    [][ ret'.op = "informe" =>
          LET c == ret'.obj IN
          /\ ret'.exc \in {"None", "ZeroDivisionError"}
          /\ ret'.exc = "ZeroDivisionError" <=>
                \/ UnidadesEn(c, Categorias(c)) = 0
                \/ \E t \in Categorias(c) : UnidadesEn(c, {t}) = 0
          /\ ret'.exc = "None" => ret'.val.unidades = UnidadesEn(c, Categorias(c))
          /\ cats'[c].productos = cats[c].productos
          /\ cats'[c].ofertas = cats[c].ofertas
          /\ prods' = prods
      ]_vars

\* C10 witness: informe raised on a catalog that holds units, one of its
\* categories holding none.
C10_Witness ==
    /\ ret.op = "informe" /\ ret.exc = "ZeroDivisionError"
    /\ UnidadesEn(ret.obj, Categorias(ret.obj)) > 0
    /\ \E t \in Categorias(ret.obj) : UnidadesEn(ret.obj, {t}) = 0

====
